---- MODULE Spec2Model ----
(***************************************************************************)
(* Model of src/main.py: the price store (portfolio.db, table stocks), the *)
(* start-up fetch, get_daily_returns, monte_carlo_simulation and           *)
(* compute_risk_metrics, with the two GUI handlers that call them.         *)
(*                                                                         *)
(* Python floats are modelled as binary floating-point numbers with a      *)
(* MantBits-bit significand, round-to-nearest-even and an unbounded        *)
(* exponent: a value is <<m, e>>, standing for m * 2^e, with m odd (or     *)
(* <<0, 0>> for zero), so equal values have equal representations.  Every  *)
(* arithmetic operation of the source is one correctly rounded operation   *)
(* here, in the source's order.                                            *)
(***************************************************************************)
EXTENDS Integers, Sequences, FiniteSets, Bags, TLC

VARIABLES stocks, pc, fetch_i, rng, ret, sim, prev, terminal_prices, metrics

vars == <<stocks, pc, fetch_i, rng, ret, sim, prev, terminal_prices, metrics>>

(***************************************************************************)
(* Bounds of the model.                                                    *)
(***************************************************************************)
MantBits == 4     \* bits of the significand of a modelled float
MaxRows == 3      \* rows the table stocks may hold
MaxDays == 2      \* largest horizon a handler passes
MaxSims == 2      \* largest sample count a handler passes
MaxN == 21        \* longest sequence of terminal prices handed to the metrics

(***************************************************************************)
(* Floating point.                                                         *)
(***************************************************************************)
RECURSIVE Pow2(_)
Pow2(k) == IF k <= 0 THEN 1 ELSE 2 * Pow2(k - 1)

RECURSIVE BitLen(_)
BitLen(n) == IF n = 0 THEN 0 ELSE 1 + BitLen(n \div 2)

Abs(x) == IF x < 0 THEN -x ELSE x

Sign(x) == IF x < 0 THEN -1 ELSE 1

Max2(a, b) == IF a >= b THEN a ELSE b

Min2(a, b) == IF a <= b THEN a ELSE b

\* The unique representation of m * 2^e: m odd, or <<0, 0>>.
RECURSIVE Canon(_, _)
Canon(m, e) ==
    IF m = 0 THEN <<0, 0>>
    ELSE IF m % 2 = 0 THEN Canon(m \div 2, e + 1)
    ELSE <<m, e>>

\* mag * 2^e (mag >= 0) rounded to MantBits significant bits, ties to even.
RoundMag(mag, e) ==
    LET k == BitLen(mag) - MantBits
    IN  IF k <= 0 THEN <<mag, e>>
        ELSE LET q    == mag \div Pow2(k)
                 r    == mag % Pow2(k)
                 half == Pow2(k - 1)
                 up   == r > half \/ (r = half /\ q % 2 = 1)
             IN  <<IF up THEN q + 1 ELSE q, e + k>>

\* The float nearest to the exact value m * 2^e.
Round(m, e) ==
    LET r == RoundMag(Abs(m), e)
    IN  Canon(Sign(m) * r[1], r[2])

\* The float nearest to the exact value (n / d) * 2^e, d > 0.
RatRound(n, d, e) ==
    LET s  == Max2(0, BitLen(d) + MantBits + 2 - BitLen(Abs(n)))
        nn == Abs(n) * Pow2(s)
        q  == nn \div d
        st == IF nn % d = 0 THEN 0 ELSE 1
    IN  IF n = 0 THEN <<0, 0>>
        ELSE Round(Sign(n) * (2 * q + st), e - s - 1)

Zero == <<0, 0>>

One == <<1, 0>>

FromInt(n) == Round(n, 0)

IsZero(a) == a[1] = 0

FNeg(a) == <<-a[1], a[2]>>

FAdd(a, b) ==
    LET e == Min2(a[2], b[2])
    IN  IF IsZero(a) THEN b
        ELSE IF IsZero(b) THEN a
        ELSE Round(a[1] * Pow2(a[2] - e) + b[1] * Pow2(b[2] - e), e)

FSub(a, b) == FAdd(a, FNeg(b))

FMul(a, b) == Round(a[1] * b[1], a[2] + b[2])

\* a / b for b # 0 (the callers raise ZeroDivisionError before dividing by zero).
FDiv(a, b) == RatRound(a[1] * Sign(b[1]), Abs(b[1]), a[2] - b[2])

\* a / n for a Python int n > 0, which converts to a float exactly.
FDivInt(a, n) == RatRound(a[1], n, a[2])

FLess(a, b) ==
    LET e == Min2(a[2], b[2])
    IN  a[1] * Pow2(a[2] - e) < b[1] * Pow2(b[2] - e)

\* math.sqrt(a) for a >= 0, correctly rounded.
FSqrt(a) ==
    LET s0 == Max2(0, 2 * MantBits + 3 - BitLen(a[1]))
        s  == IF (a[2] - s0) % 2 = 0 THEN s0 ELSE s0 + 1
        mm == a[1] * Pow2(s)
        r  == CHOOSE x \in 0 .. Pow2(MantBits + 3) : x * x <= mm /\ (x + 1) * (x + 1) > mm
        st == IF r * r = mm THEN 0 ELSE 1
    IN  IF IsZero(a) THEN Zero
        ELSE Round(2 * r + st, ((a[2] - s) \div 2) - 1)

(***************************************************************************)
(* Values of the model.  An optional value (Python's None or a value) is   *)
(* <<>> or <<v>>.                                                          *)
(***************************************************************************)
None == <<>>

Some(v) == <<v>>

\* The symbols fetched at every program start.
StartupSymbols == <<"AAPL", "GOOGL", "MSFT">>

\* Close prices the quote service may report.
Closes == {FromInt(0), FromInt(1), FromInt(2)}

\* Ticks of the service's clock per calendar day.
TicksPerDay == 2

\* Timestamps the quote service may report: one bar a day, on two days.
Timestamps == {1, TicksPerDay + 1}

\* datetime.fromtimestamp(t).strftime('%Y-%m-%d'): the calendar day of t.
DateOf(t) == t \div TicksPerDay

\* One bar of a response: the timestamp and the three indicator values at
\* its index, each of which may be null.
Bars ==
    [timestamp : Timestamps, open_price : {Some(One)}, close_price : {Some(c) : c \in Closes},
     volume : {Some(One)}]
    \cup {[timestamp |-> 1, open_price |-> None, close_price |-> Some(One), volume |-> Some(One)],
          [timestamp |-> 1, open_price |-> Some(One), close_price |-> None, volume |-> Some(One)],
          [timestamp |-> 1, open_price |-> Some(One), close_price |-> Some(One), volume |-> None]}

\* What requests.get(...) and the parsing of its body can produce: an
\* exception (network, HTTP status, JSON, a missing or short list), a body
\* without chart/result, or a chart of up to two bars in the order of
\* their timestamps.
Responses ==
    {[kind |-> "error", bars |-> <<>>], [kind |-> "invalid", bars |-> <<>>]}
    \cup {[kind |-> "chart", bars |-> b] :
            b \in {<<>>} \cup {<<x>> : x \in Bars}
                  \cup {b2 \in {<<x, y>> : x, y \in Bars} : b2[1].timestamp < b2[2].timestamp}}

(***************************************************************************)
(* The store: table stocks of portfolio.db.  Only symbol, date and         *)
(* close_price are ever read.  No query orders by id, and SQLite leaves    *)
(* the order of rows with equal sort keys unspecified, so the table is a   *)
(* bag of rows.                                                            *)
(***************************************************************************)
RECURSIVE InsertAll(_, _, _)
\* Lines 40-49: one INSERT for every bar none of whose three values is null.
InsertAll(table, symbol, bars) ==
    IF bars = <<>> THEN table
    ELSE LET b    == Head(bars)
             full == b.open_price # None /\ b.close_price # None /\ b.volume # None
             row  == [symbol |-> symbol, date |-> DateOf(b.timestamp),
                      close_price |-> b.close_price[1]]
         IN  InsertAll(IF full THEN table (+) SetToBag({row}) ELSE table, symbol, Tail(bars))

\* The table after fetch_stock_data(symbol) has handled `response`.
fetch_stock_data(table, symbol, response) ==
    IF response.kind = "chart" THEN InsertAll(table, symbol, response.bars) ELSE table

\* SELECT ... WHERE symbol = ?: the rows of one symbol.
WhereSymbol(table, symbol) ==
    LET keep == {r \in BagToSet(table) : r.symbol = symbol}
    IN  [r \in keep |-> table[r]]

MinDate(bag) == CHOOSE d \in {r.date : r \in BagToSet(bag)} : \A r \in BagToSet(bag) : d <= r.date

MaxDate(bag) == CHOOSE d \in {r.date : r \in BagToSet(bag)} : \A r \in BagToSet(bag) : d >= r.date

RECURSIVE OrderByDate(_)
\* ORDER BY date: every sequence of the rows with nondecreasing dates.
OrderByDate(bag) ==
    IF BagToSet(bag) = {} THEN {<<>>}
    ELSE UNION {{<<r>> \o s : s \in OrderByDate(bag (-) SetToBag({r}))} :
                  r \in {x \in BagToSet(bag) : x.date = MinDate(bag)}}

\* Line 61: the rows get_daily_returns may fetch.
SelectHistory(table, symbol) == OrderByDate(WhereSymbol(table, symbol))

\* SelectLast with the DESC of line 78 forgotten.
SelectLastAscending(table, symbol) ==
    LET bag == WhereSymbol(table, symbol)
    IN  {r \in BagToSet(bag) : r.date = MinDate(bag)}

\* Line 78: ORDER BY date DESC LIMIT 1; the rows fetchone() may return.
SelectLast(table, symbol) ==
    LET bag == WhereSymbol(table, symbol)
    IN  {r \in BagToSet(bag) : r.date = MaxDate(bag)}

(***************************************************************************)
(* get_daily_returns, lines 64-68, on the rows its query fetched.          *)
(***************************************************************************)
\* get_daily_returns with the operands of line 67's subtraction exchanged.
get_daily_returns_exchanged(rows) ==
    IF Len(rows) < 2 THEN [outcome |-> "None", returns |-> <<>>]
    ELSE IF \E i \in 1 .. Len(rows) - 1 : IsZero(rows[i].close_price)
    THEN [outcome |-> "ZeroDivisionError", returns |-> <<>>]
    ELSE [outcome |-> "list",
          returns |-> [i \in 1 .. Len(rows) - 1 |->
                         FDiv(FSub(rows[i].close_price, rows[i + 1].close_price),
                              rows[i].close_price)]]

get_daily_returns(rows) ==
    IF Len(rows) < 2 THEN [outcome |-> "None", returns |-> <<>>]
    ELSE IF \E i \in 1 .. Len(rows) - 1 : IsZero(rows[i].close_price)
    THEN [outcome |-> "ZeroDivisionError", returns |-> <<>>]
    ELSE [outcome |-> "list",
          returns |-> [i \in 1 .. Len(rows) - 1 |->
                         FDiv(FSub(rows[i + 1].close_price, rows[i].close_price),
                              rows[i].close_price)]]

(***************************************************************************)
(* The process-global generator of module random: the core generator's     *)
(* state mt and the cached second value gauss_next of the last pair.  One   *)
(* pair of normal deviates is a function of the core state it is drawn in.  *)
(***************************************************************************)
\* The pair (z, gauss_next) drawn in each core state.
GaussTable ==
    << <<FromInt(1), <<-1, -1>> >>,
       <<FromInt(-1), <<1, -1>> >>,
       << <<1, -1>>, FromInt(2)>> >>

RngStates == 1 .. Len(GaussTable)

\* Line 4: import random seeds a fresh generator from the system's entropy.
SeedRandom(seed) == [mt |-> seed, gauss_next |-> None]

\* gauss with the arguments of line 87 exchanged.
gauss_exchanged(g, mu, sigma) ==
    LET cached == g.gauss_next # None
        z      == IF cached THEN g.gauss_next[1] ELSE GaussTable[g.mt][1]
        g2     == IF cached THEN [g EXCEPT !.gauss_next = None]
                  ELSE [mt |-> (g.mt % Len(GaussTable)) + 1,
                        gauss_next |-> Some(GaussTable[g.mt][2])]
    IN  [value |-> FAdd(sigma, FMul(z, mu)), rng |-> g2]

\* random.gauss(mu, sigma): the cached deviate if there is one, else the
\* first of a new pair, whose second is cached; returns mu + z * sigma.
gauss(g, mu, sigma) ==
    LET cached == g.gauss_next # None
        z      == IF cached THEN g.gauss_next[1] ELSE GaussTable[g.mt][1]
        g2     == IF cached THEN [g EXCEPT !.gauss_next = None]
                  ELSE [mt |-> (g.mt % Len(GaussTable)) + 1,
                        gauss_next |-> Some(GaussTable[g.mt][2])]
    IN  [value |-> FAdd(mu, FMul(z, sigma)), rng |-> g2]

(***************************************************************************)
(* monte_carlo_simulation, lines 70-91.                                    *)
(***************************************************************************)
RECURSIVE FSum(_)
\* sum(xs): the items added from left to right, starting from 0.
FSum(xs) == IF xs = <<>> THEN Zero ELSE FAdd(FSum(SubSeq(xs, 1, Len(xs) - 1)), xs[Len(xs)])

FMax(xs) == CHOOSE x \in {xs[i] : i \in 1 .. Len(xs)} : \A i \in 1 .. Len(xs) : ~FLess(x, xs[i])

FMin(xs) == CHOOSE x \in {xs[i] : i \in 1 .. Len(xs)} : \A i \in 1 .. Len(xs) : ~FLess(xs[i], x)

RECURSIVE WalkPathOnceAtLeast(_, _, _, _, _, _, _)
\* WalkPath with the loop of line 85 testing after its body.
WalkPathOnceAtLeast(path, price, left, g, n, mu, sigma) ==
    IF left <= 0 /\ Len(path) > 1 THEN [path |-> path, rng |-> g, draws |-> n]
    ELSE LET d  == gauss(g, mu, sigma)
             p2 == FMul(price, FAdd(One, d.value))
         IN  WalkPathOnceAtLeast(Append(path, p2), p2, left - 1, d.rng, n + 1, mu, sigma)

RECURSIVE WalkPath(_, _, _, _, _, _, _)
\* Lines 85-89: the remaining `left` steps of one path; n counts the calls
\* of random.gauss.
WalkPath(path, price, left, g, n, mu, sigma) ==
    IF left <= 0 THEN [path |-> path, rng |-> g, draws |-> n]
    ELSE LET d  == gauss(g, mu, sigma)
             p2 == FMul(price, FAdd(One, d.value))
         IN  WalkPath(Append(path, p2), p2, left - 1, d.rng, n + 1, mu, sigma)

RECURSIVE RunPaths(_, _, _, _, _, _, _, _)
\* Lines 82-90: the remaining `left` paths of the ensemble.
RunPaths(result, left, start, days, g, n, mu, sigma) ==
    IF left <= 0 THEN [result |-> result, rng |-> g, draws |-> n]
    ELSE LET w == WalkPath(<<start>>, start, days, g, n, mu, sigma)
         IN  RunPaths(Append(result, w.path), left - 1, start, days, w.rng, w.draws, mu, sigma)

\* Lines 71-91 for a generator found in state g0, now in state g after n
\* calls of random.gauss.  `rows` is what the query of line 61 fetched and
\* `last` the row the query of line 78 fetches; outcome is "None" (return
\* None), the exception raised, or "list" (an ensemble is returned).
SimulationRecord(symbol, rows, last, days, simulations, g0, g, n) ==
    LET r    == get_daily_returns(rows)
        len  == Len(r.returns)
        avg  == FDivInt(FSum(r.returns), len)
        vol  == FDivInt(FSub(FMax(r.returns), FMin(r.returns)), 2)
        run  == RunPaths(<<>>, simulations, last.close_price, days, g, n, avg, vol)
        base == [op |-> "monte_carlo_simulation", symbol |-> symbol, rows |-> rows,
                 days |-> days, simulations |-> simulations, rng0 |-> g0]
    IN  IF r.outcome # "list"
        THEN base @@ [outcome |-> r.outcome, avg_return |-> Zero, volatility |-> Zero,
                      last_close_price |-> Zero, result |-> <<>>, draws |-> n, rng |-> g]
        ELSE base @@ [outcome |-> "list", avg_return |-> avg, volatility |-> vol,
                      last_close_price |-> last.close_price, result |-> run.result,
                      draws |-> run.draws, rng |-> run.rng]

\* monte_carlo_simulation with a draw made before the returns are read.
monte_carlo_simulation_drawing_first(symbol, rows, last, days, simulations, g) ==
    SimulationRecord(symbol, rows, last, days, simulations, g, gauss(g, Zero, One).rng, 1)

\* The call's record: what it read, computed, consumed and returned.
monte_carlo_simulation(symbol, rows, last, days, simulations, g) ==
    SimulationRecord(symbol, rows, last, days, simulations, g, g, 0)

(***************************************************************************)
(* compute_risk_metrics, lines 93-100.                                     *)
(***************************************************************************)
RECURSIVE Insert(_, _)
Insert(x, sorted) ==
    IF sorted = <<>> THEN <<x>>
    ELSE IF FLess(x, Head(sorted)) THEN <<x>> \o sorted
    ELSE <<Head(sorted)>> \o Insert(x, Tail(sorted))

\* sorted(xs) left out.
Unsorted(xs) == xs

RECURSIVE Sorted(_)
\* sorted(xs): ascending.
Sorted(xs) == IF xs = <<>> THEN <<>> ELSE Insert(Head(xs), Sorted(Tail(xs)))

\* int(0.05 * n): the double nearest to 0.05 lies above 1/20 by less than
\* 3e-18, so for every n below 2^50 the rounded product truncates to the
\* integer part of n / 20.
Index5(n) == n \div 20

\* The default risk_free_rate, the float nearest to 0.01.
RiskFreeRate == RatRound(1, 100, 0)

\* Line 98, under the root: sum((x - mean) ** 2 for x in xs) / len(xs).
MeanSquare(xs, mean) ==
    FDivInt(FSum([i \in 1 .. Len(xs) |-> FMul(FSub(xs[i], mean), FSub(xs[i], mean))]), Len(xs))

\* Lines 94-100 when the subscript of line 96 is in range.
risk_metrics(final_prices, risk_free_rate) ==
    LET n               == Len(final_prices)
        sorted_prices   == Sorted(final_prices)
        index_5         == Index5(n)
        expected_return == FDivInt(FSum(final_prices), n)
        volatility      == FSqrt(MeanSquare(final_prices, expected_return))
        sharpe_ratio    == IF ~IsZero(volatility)
                           THEN FDiv(FSub(expected_return, risk_free_rate), volatility)
                           ELSE Zero
    IN  [op |-> "compute_risk_metrics", final_prices |-> final_prices, outcome |-> "tuple",
         var_95 |-> sorted_prices[index_5 + 1], expected_return |-> expected_return,
         sharpe_ratio |-> sharpe_ratio]

\* compute_risk_metrics with an empty input answered by zeros.
compute_risk_metrics_guarded(final_prices, risk_free_rate) ==
    IF final_prices = <<>>
    THEN [op |-> "compute_risk_metrics", final_prices |-> final_prices,
          outcome |-> "tuple", var_95 |-> Zero, expected_return |-> Zero,
          sharpe_ratio |-> Zero]
    ELSE risk_metrics(final_prices, risk_free_rate)

\* The call's record; outcome is the exception raised or "tuple".  The
\* subscript of line 96 raises IndexError when it is out of range, before
\* line 97 divides by the length.
compute_risk_metrics(final_prices, risk_free_rate) ==
    IF Index5(Len(final_prices)) + 1 > Len(final_prices)
    THEN [op |-> "compute_risk_metrics", final_prices |-> final_prices,
          outcome |-> "IndexError", var_95 |-> Zero, expected_return |-> Zero,
          sharpe_ratio |-> Zero]
    ELSE risk_metrics(final_prices, risk_free_rate)

(***************************************************************************)
(* Inputs.                                                                 *)
(***************************************************************************)
\* What int(days_entry.get()) and int(sim_entry.get()) may yield.
DaysInputs == -1 .. MaxDays

SimulationsInputs == -1 .. MaxSims

\* Symbols typed into a handler's form, and the rows of a store they read.
FormSymbols == {"AAPL", "MSFT"}

StoreRows == [symbol : FormSymbols, date : {DateOf(t) : t \in Timestamps}, close_price : Closes]

RECURSIVE BagsUpTo(_, _)
\* The bags of at most n elements of `rows`.
BagsUpTo(rows, n) ==
    IF n = 0 THEN {EmptyBag}
    ELSE LET less == BagsUpTo(rows, n - 1)
         IN  less \cup {b (+) SetToBag({r}) : b \in less, r \in rows}

\* The stores a handler may find: earlier runs of the program have fetched.
Stores == BagsUpTo(StoreRows, MaxRows)

\* The stores of the replay experiment: one symbol, positive closes.
ReplayStores ==
    BagsUpTo({r \in StoreRows : r.symbol = "AAPL" /\ ~IsZero(r.close_price)}, MaxRows)

\* Terminal prices handed to the metrics.
RiskPrices == {FromInt(1), FromInt(3), FromInt(7)}

\* Every sequence of at most three prices, every constant sequence of up
\* to MaxN prices, and sequences of up to MaxN prices in mixed order.
RiskInputs ==
    UNION {[1 .. n -> RiskPrices] : n \in 0 .. 3}
    \cup {[i \in 1 .. n |-> x] : n \in 1 .. MaxN, x \in RiskPrices}
    \cup {[i \in 1 .. n |-> FromInt(((a * i + b) % m) + 1)] :
            n \in 1 .. MaxN, a \in {3, 7}, b \in {0, 1}, m \in {5, 23}}

NoCall == [op |-> "none"]

Called(c) == c.op # "none"

\* The row fetchone() returns at line 79; a store without rows of the
\* symbol never gets there.
LastRows(table, symbol) ==
    IF BagToSet(WhereSymbol(table, symbol)) = {}
    THEN {[symbol |-> symbol, date |-> 0, close_price |-> Zero]}
    ELSE SelectLast(table, symbol)

(***************************************************************************)
(* Actions.                                                                *)
(***************************************************************************)
\* Lines 4 and 280-281: a process starts; import random seeds the generator
\* and create_database keeps an existing table.
Start ==
    /\ pc = "off"
    /\ \E seed \in RngStates : rng' = SeedRandom(seed)
    /\ pc' = "fetch"
    /\ fetch_i' = 1
    /\ UNCHANGED <<stocks, ret, sim, prev, terminal_prices, metrics>>

\* Lines 283-284 and 27-56: fetch_stock_data for the next start-up symbol.
\* The table holds at most MaxRows rows.
FetchStockData ==
    /\ pc = "fetch"
    /\ \E response \in Responses :
         LET table == fetch_stock_data(stocks, StartupSymbols[fetch_i], response)
         IN  /\ BagCardinality(table) <= MaxRows
             /\ stocks' = table
    /\ fetch_i' = IF fetch_i < Len(StartupSymbols) THEN fetch_i + 1 ELSE 0
    /\ pc' = IF fetch_i < Len(StartupSymbols) THEN "fetch" ELSE "gui"
    /\ UNCHANGED <<rng, ret, sim, prev, terminal_prices, metrics>>

\* Lines 58-68: get_daily_returns(symbol) reads the store.
GetDailyReturns ==
    /\ pc = "gui"
    /\ \E symbol \in {StartupSymbols[i] : i \in 1 .. Len(StartupSymbols)} :
         \E rows \in SelectHistory(stocks, symbol) :
            ret' = [op |-> "get_daily_returns", symbol |-> symbol, rows |-> rows]
                   @@ get_daily_returns(rows)
    /\ UNCHANGED <<stocks, pc, fetch_i, rng, sim, prev, terminal_prices, metrics>>

\* Line 285 returns: the window is closed and the process ends.
Exit ==
    /\ pc = "gui"
    /\ pc' = "off"
    /\ ret' = NoCall
    /\ UNCHANGED <<stocks, fetch_i, rng, sim, prev, terminal_prices, metrics>>

\* Lines 144 and 187: a handler calls monte_carlo_simulation.
Simulate(symbol, days, simulations) ==
    /\ pc = "gui"
    /\ \E rows \in SelectHistory(stocks, symbol) :
         \E last \in LastRows(stocks, symbol) :
            sim' = monte_carlo_simulation(symbol, rows, last, days, simulations, rng)
    /\ rng' = sim'.rng

\* Lines 134-160: run_sim, while no plot window of an earlier call is open.
RunSim ==
    /\ ~Called(sim)
    /\ \E symbol \in FormSymbols, days \in DaysInputs, simulations \in SimulationsInputs :
         Simulate(symbol, days, simulations)
    /\ UNCHANGED <<stocks, pc, fetch_i, ret, prev, terminal_prices, metrics>>

\* The plot window of the last call is closed; its paths are dropped.
ClosePlot ==
    /\ pc = "gui"
    /\ Called(sim)
    /\ sim' = NoCall
    /\ UNCHANGED <<stocks, pc, fetch_i, rng, ret, prev, terminal_prices, metrics>>

\* The first call of a handler in a process; when an earlier process has
\* made a call, the form is filled in as it was then.
RunFirstSim ==
    /\ ~Called(sim)
    /\ \E days \in 0 .. MaxDays, simulations \in 1 .. MaxSims :
         /\ Called(prev) => days = prev.days /\ simulations = prev.simulations
         /\ Simulate("AAPL", days, simulations)
    /\ UNCHANGED <<stocks, pc, fetch_i, ret, prev, terminal_prices, metrics>>

\* RestartOffline with the generator's cached deviate surviving.
RestartKeepingCache ==
    /\ pc = "gui"
    /\ Called(sim)
    /\ \E seed \in RngStates : rng' = [mt |-> seed, gauss_next |-> rng.gauss_next]
    /\ prev' = sim
    /\ sim' = NoCall
    /\ UNCHANGED <<stocks, pc, fetch_i, ret, terminal_prices, metrics>>

\* The process is ended and started again while the quote service cannot be
\* reached: every fetch_stock_data prints its error and the store is as it
\* was; import random seeds a fresh generator.  prev keeps the record of
\* the ended process's call.
RestartOffline ==
    /\ pc = "gui"
    /\ Called(sim)
    /\ \E seed \in RngStates : rng' = SeedRandom(seed)
    /\ prev' = sim
    /\ sim' = NoCall
    /\ UNCHANGED <<stocks, pc, fetch_i, ret, terminal_prices, metrics>>

\* Line 192: compute_risk_metrics(final_prices), risk_free_rate defaulted.
ComputeRiskMetrics ==
    /\ pc = "risk"
    /\ ~Called(metrics)
    /\ metrics' = compute_risk_metrics(terminal_prices, RiskFreeRate)
    /\ UNCHANGED <<stocks, pc, fetch_i, rng, ret, sim, prev, terminal_prices>>

(***************************************************************************)
(* Specifications.                                                         *)
(***************************************************************************)
Idle ==
    /\ ret = NoCall
    /\ sim = NoCall
    /\ prev = NoCall
    /\ metrics = NoCall
    /\ fetch_i = 0

\* The handlers of a running program over the stores it may find.
Init ==
    /\ Idle
    /\ pc = "gui"
    /\ stocks \in Stores
    /\ rng \in {SeedRandom(seed) : seed \in RngStates}
    /\ terminal_prices = <<>>

Next == RunSim \/ ClosePlot

Spec == Init /\ [][Next]_vars

\* The program from its first start: start-up fetches, reads of the store.
InitStore ==
    /\ Idle
    /\ pc = "off"
    /\ stocks = EmptyBag
    /\ rng = SeedRandom(1)
    /\ terminal_prices = <<>>

NextStore == Start \/ FetchStockData \/ GetDailyReturns \/ Exit

SpecStore == InitStore /\ [][NextStore]_vars

\* The replay experiment: a call, a restart, a call.
InitReplay ==
    /\ Idle
    /\ pc = "gui"
    /\ stocks \in ReplayStores
    /\ rng \in {SeedRandom(seed) : seed \in RngStates}
    /\ terminal_prices = <<>>

NextReplay == RunFirstSim \/ RestartOffline

SpecReplay == InitReplay /\ [][NextReplay]_vars

\* compute_risk_metrics over its inputs.
InitRisk ==
    /\ Idle
    /\ pc = "risk"
    /\ stocks = EmptyBag
    /\ rng = SeedRandom(1)
    /\ terminal_prices \in RiskInputs

NextRisk == ComputeRiskMetrics

SpecRisk == InitRisk /\ [][NextRisk]_vars

(***************************************************************************)
(* Properties of compute_risk_metrics, checked under SpecRisk.             *)
(***************************************************************************)
\* The items of a sequence.
Range(xs) == {xs[i] : i \in 1 .. Len(xs)}

\* How many items of xs lie below v, and how many do not lie above it.
CountBelow(xs, v) == Cardinality({i \in 1 .. Len(xs) : FLess(xs[i], v)})

CountUpTo(xs, v) == Cardinality({i \in 1 .. Len(xs) : ~FLess(v, xs[i])})

\* C6: for n > 0 terminal prices var_95 is the item at index floor(0.05 * n)
\* (counting from 0) of the prices in ascending order, that is, an item
\* with at most floor(n / 20) items below it and more than floor(n / 20)
\* items not above it; for n < 20 it is the smallest price.
C6_VarIsFifthPercentile ==
    (Called(metrics) /\ Len(metrics.final_prices) > 0) =>
        LET xs == metrics.final_prices
            n  == Len(xs)
            k  == n \div 20
            v  == metrics.var_95
        IN  /\ metrics.outcome = "tuple"
            /\ v \in Range(xs)
            /\ CountBelow(xs, v) <= k
            /\ CountUpTo(xs, v) >= k + 1
            /\ n < 20 => \A x \in Range(xs) : ~FLess(x, v)

\* Twenty or more prices in mixed order whose var_95 is not the smallest.
C6_Witness ==
    /\ Called(metrics)
    /\ metrics.outcome = "tuple"
    /\ Len(metrics.final_prices) >= 20
    /\ CountBelow(metrics.final_prices, metrics.var_95) = 1
    /\ FLess(metrics.var_95, metrics.final_prices[1])

\* C7: when all terminal prices are equal the Sharpe ratio is exactly 0
\* and the expected return is the common price.
C7_EqualPricesZeroSharpe ==
    (/\ Called(metrics)
     /\ Len(metrics.final_prices) > 0
     /\ \A x \in Range(metrics.final_prices) : x = metrics.final_prices[1]) =>
        /\ metrics.outcome = "tuple"
        /\ metrics.sharpe_ratio = Zero
        /\ metrics.expected_return = metrics.final_prices[1]

\* C8: with no terminal prices the call fails by an exception and returns
\* no metrics.
C8_EmptyInputFails ==
    (Called(metrics) /\ metrics.final_prices = <<>>) =>
        metrics.outcome = "IndexError"

C8_Witness ==
    /\ Called(metrics)
    /\ metrics.final_prices = <<>>
    /\ metrics.outcome = "IndexError"

(***************************************************************************)
(* Properties of the store and of get_daily_returns, checked under         *)
(* SpecStore.                                                              *)
(***************************************************************************)
\* How often row r occurs in the sequence rows.
Occurrences(rows, r) == Cardinality({i \in 1 .. Len(rows) : rows[i] = r})

\* rows holds exactly the rows of `symbol` in the table, dates ascending.
IsHistory(rows, table, symbol) ==
    /\ \A i \in 1 .. Len(rows) :
         /\ rows[i].symbol = symbol
         /\ CopiesIn(rows[i], table) = Occurrences(rows, rows[i])
    /\ \A r \in BagToSet(table) : r.symbol = symbol => Occurrences(rows, r) > 0
    /\ \A i \in 1 .. Len(rows) - 1 : rows[i].date <= rows[i + 1].date

\* C3: for a history of n >= 2 records with positive closes, read in date
\* order, the return series has n - 1 items and item i is
\* (close[i + 1] - close[i]) / close[i].
C3_ReturnSeries ==
    (/\ Called(ret)
     /\ Len(ret.rows) >= 2
     /\ \A i \in 1 .. Len(ret.rows) : FLess(Zero, ret.rows[i].close_price)) =>
        /\ IsHistory(ret.rows, stocks, ret.symbol)
        /\ ret.outcome = "list"
        /\ Len(ret.returns) = Len(ret.rows) - 1
        /\ \A i \in 1 .. Len(ret.rows) - 1 :
             ret.returns[i] = FDiv(FSub(ret.rows[i + 1].close_price, ret.rows[i].close_price),
                                   ret.rows[i].close_price)

\* A history of two days with a rising close, next to another symbol's row.
C3_Witness ==
    /\ Called(ret)
    /\ ret.outcome = "list"
    /\ Len(ret.rows) = 2
    /\ ret.rows[1].date < ret.rows[2].date
    /\ FLess(Zero, ret.rows[1].close_price)
    /\ FLess(ret.rows[1].close_price, ret.rows[2].close_price)
    /\ ret.returns[1] = One
    /\ \E r \in BagToSet(stocks) : r.symbol # ret.symbol

\* C10: the history of a symbol read from the store has strictly
\* increasing dates, however often the start-up fetch has run.
C10_StrictlyIncreasingDates ==
    Called(ret) => \A i \in 1 .. Len(ret.rows) - 1 : ret.rows[i].date < ret.rows[i + 1].date

(***************************************************************************)
(* Properties of monte_carlo_simulation, checked under Spec.               *)
(***************************************************************************)
\* The rows of `symbol` in the table that carry its latest date.
LatestRows(table, symbol) ==
    {r \in BagToSet(table) :
        /\ r.symbol = symbol
        /\ \A x \in BagToSet(table) : x.symbol = symbol => x.date <= r.date}

\* C1: for simulations >= 1 and days >= 0 the ensemble holds exactly
\* `simulations` paths, each of days + 1 prices, and each path starts with
\* the start price, the close of the symbol's latest record.
C1_EnsembleShape ==
    (Called(sim) /\ sim.outcome = "list" /\ sim.simulations >= 1 /\ sim.days >= 0) =>
        /\ Len(sim.result) = sim.simulations
        /\ \E r \in LatestRows(stocks, sim.symbol) :
             \A i \in 1 .. Len(sim.result) :
                /\ Len(sim.result[i]) = sim.days + 1
                /\ sim.result[i][1] = r.close_price

\* The largest ensemble over a history whose first and last close differ.
C1_Witness ==
    /\ Called(sim)
    /\ sim.outcome = "list"
    /\ sim.simulations = MaxSims
    /\ sim.days = MaxDays
    /\ Len(sim.result) = MaxSims
    /\ \E a, b \in BagToSet(stocks) :
         /\ a.symbol = sim.symbol
         /\ b.symbol = sim.symbol
         /\ a.date < b.date
         /\ a.close_price # b.close_price

\* A request is refused when the call does not return an ensemble.
Refused(c) == c.outcome # "list"

\* C4 as the specification states it: a call with days <= 0, with
\* simulations <= 0 or with a start price that is not positive is refused
\* and returns no ensemble.
C4_NonPositiveRefused ==
    (/\ Called(sim)
     /\ \/ sim.days <= 0
        \/ sim.simulations <= 0
        \/ sim.outcome = "list" /\ ~FLess(Zero, sim.last_close_price)) =>
        Refused(sim)

\* C4 as the code has it: whether a call returns an ensemble depends on the
\* stored history alone, never on days or simulations.  With
\* simulations <= 0 the ensemble is empty; with simulations >= 1 and
\* days <= 0 every path is the start price alone.  Neither case draws
\* from the generator.
C4_NonPositiveAccepted ==
    Called(sim) =>
        /\ Refused(sim) <=> (Len(sim.rows) < 2
                             \/ \E i \in 1 .. Len(sim.rows) - 1 : IsZero(sim.rows[i].close_price))
        /\ (~Refused(sim) /\ sim.simulations <= 0) =>
               sim.result = <<>> /\ sim.draws = 0
        /\ (~Refused(sim) /\ sim.simulations >= 1 /\ sim.days <= 0) =>
               /\ Len(sim.result) = sim.simulations
               /\ \A i \in 1 .. Len(sim.result) : sim.result[i] = <<sim.last_close_price>>
               /\ sim.draws = 0

\* A negative horizon answered by an ensemble of one-price paths.
C4_Witness ==
    /\ Called(sim)
    /\ sim.outcome = "list"
    /\ sim.days < 0
    /\ sim.simulations = MaxSims
    /\ sim.result = [i \in 1 .. MaxSims |-> <<sim.last_close_price>>]

\* C5: a call that ends without an ensemble to show (it returns None,
\* raises, or returns the empty ensemble) has drawn no random value: the
\* generator is in the state the call found it in.
C5_NoDrawOnFailure ==
    (Called(sim) /\ (sim.outcome # "list" \/ sim.result = <<>>)) =>
        /\ sim.draws = 0
        /\ sim.rng = sim.rng0
        /\ rng = sim.rng0
        /\ sim.result = <<>>

\* A call for a positive horizon and count that finds a one-row history.
C5_Witness ==
    /\ Called(sim)
    /\ sim.outcome = "None"
    /\ Len(sim.rows) = 1
    /\ sim.days > 0
    /\ sim.simulations > 0
    /\ rng = sim.rng0

RECURSIVE Compound(_, _, _)
\* price * (1 + rate), k times over, each product rounded.
Compound(price, rate, k) ==
    IF k = 0 THEN price ELSE FMul(Compound(price, rate, k - 1), FAdd(One, rate))

\* C9: when the dispersion estimate is 0 every path is the start price
\* compounded by the average return: price k of a path (counting from 0)
\* is the start price multiplied k times by (1 + average return).
C9_ZeroDispersionCompounds ==
    (Called(sim) /\ sim.outcome = "list" /\ IsZero(sim.volatility)) =>
        \A i \in 1 .. Len(sim.result) :
            \A k \in 0 .. Len(sim.result[i]) - 1 :
                sim.result[i][k + 1] = Compound(sim.last_close_price, sim.avg_return, k)

\* Equal nonzero returns, the longest horizon and the largest count.
C9_Witness ==
    /\ Called(sim)
    /\ sim.outcome = "list"
    /\ IsZero(sim.volatility)
    /\ ~IsZero(sim.avg_return)
    /\ ~IsZero(sim.last_close_price)
    /\ sim.days = MaxDays
    /\ sim.simulations = MaxSims
    /\ Len(sim.result) = MaxSims

====
